---- MODULE Spec2Model ----
(***************************************************************************)
(* Environment source of config-rs (src/src/env.rs).                       *)
(*                                                                         *)
(* A character is its Unicode scalar value (an integer) and a string is a  *)
(* sequence of characters, so that lowercasing, prefix tests, slicing and  *)
(* substring replacement are computed character by character as the Rust   *)
(* code does.  Str(<<"a","b">>) writes an ASCII string.  An Option<String> *)
(* is a record [some, val].  The map returned by collect() is a function   *)
(* from keys to values; a value is a record [kind, text, exp, origin]      *)
(* where text/exp hold the payload (see the parsers below).                *)
(***************************************************************************)
EXTENDS Integers, Sequences, FiniteSets, TLC

VARIABLES cfg, env, result, calls, op

vars == <<cfg, env, result, calls, op>>

(***************************************************************************)
(* Bounds                                                                  *)
(***************************************************************************)
MaxEnv == 2

MaxCalls == 2

(***************************************************************************)
(* Characters and strings                                                  *)
(***************************************************************************)
\* The printable ASCII characters, U+0020 to U+007E, in code order (the
\* grave accent is written U+0060).
AsciiChars ==
    <<" ","!","\"","#","$","%","&","'","(",")","*","+",",","-",".","/",
      "0","1","2","3","4","5","6","7","8","9",":",";","<","=",">","?",
      "@","A","B","C","D","E","F","G","H","I","J","K","L","M","N","O",
      "P","Q","R","S","T","U","V","W","X","Y","Z","[","\\","]","^","_",
      "U+0060","a","b","c","d","e","f","g","h","i","j","k","l","m","n","o",
      "p","q","r","s","t","u","v","w","x","y","z","{","|","}","~">>

\* The scalar value of a printable ASCII character.
Code(ch) == 31 + (CHOOSE i \in 1..Len(AsciiChars) : AsciiChars[i] = ch)

\* The string made of the given printable ASCII characters.
Str(t) == [i \in 1..Len(t) |-> Code(t[i])]

Str_true == Str(<<"t","r","u","e">>)

Str_false == Str(<<"f","a","l","s","e">>)

Str_inf == Str(<<"i","n","f">>)

Str_infinity == Str(<<"i","n","f","i","n","i","t","y">>)

Str_nan == Str(<<"n","a","n">>)

Str_underscore == Str(<<"_">>)

Str_dot == Str(<<".">>)

Ch_Plus == Code("+")

Ch_Minus == Code("-")

Ch_Dot == Code(".")

Ch_Zero == Code("0")

Ch_Nine == Code("9")

Ch_UpperA == Code("A")

Ch_UpperZ == Code("Z")

Ch_LowerE == Code("e")

Ch_UpperE == Code("E")

\* A unit of the environment block that is not valid Unicode (the value is
\* outside the scalar values).
BadByte == -1

IsUnicode(s) == \A i \in 1..Len(s) : s[i] # BadByte

(***************************************************************************)
(* Unicode tables used by str::to_lowercase (core::unicode), as of the     *)
(* Unicode 17.0 data of the standard library.  A character that no table   *)
(* lists has no lowercase mapping and neither property.                    *)
(*   LowercaseRuns        <<lo, hi, step, delta>>: the characters lo,      *)
(*                        lo+step, ..., hi lowercase to themselves plus     *)
(*                        delta (the one-to-one Lowercase_Mapping);         *)
(*   CasedRanges          <<lo, hi>>: characters with property Cased;       *)
(*   CaseIgnorableRanges  <<lo, hi>>: characters with Case_Ignorable.       *)
(***************************************************************************)
LowercaseRuns ==
    {<<65, 90, 1, 32>>, <<192, 214, 1, 32>>, <<216, 222, 1, 32>>, <<256, 302, 2, 1>>,
     <<306, 310, 2, 1>>, <<313, 327, 2, 1>>, <<330, 374, 2, 1>>, <<376, 376, 1, -121>>,
     <<377, 381, 2, 1>>, <<385, 385, 1, 210>>, <<386, 388, 2, 1>>, <<390, 390, 1, 206>>,
     <<391, 391, 1, 1>>, <<393, 394, 1, 205>>, <<395, 395, 1, 1>>, <<398, 398, 1, 79>>,
     <<399, 399, 1, 202>>, <<400, 400, 1, 203>>, <<401, 401, 1, 1>>, <<403, 403, 1, 205>>,
     <<404, 404, 1, 207>>, <<406, 406, 1, 211>>, <<407, 407, 1, 209>>, <<408, 408, 1, 1>>,
     <<412, 412, 1, 211>>, <<413, 413, 1, 213>>, <<415, 415, 1, 214>>, <<416, 420, 2, 1>>,
     <<422, 422, 1, 218>>, <<423, 423, 1, 1>>, <<425, 425, 1, 218>>, <<428, 428, 1, 1>>,
     <<430, 430, 1, 218>>, <<431, 431, 1, 1>>, <<433, 434, 1, 217>>, <<435, 437, 2, 1>>,
     <<439, 439, 1, 219>>, <<440, 440, 1, 1>>, <<444, 444, 1, 1>>, <<452, 452, 1, 2>>,
     <<453, 453, 1, 1>>, <<455, 455, 1, 2>>, <<456, 456, 1, 1>>, <<458, 458, 1, 2>>,
     <<459, 475, 2, 1>>, <<478, 494, 2, 1>>, <<497, 497, 1, 2>>, <<498, 500, 2, 1>>,
     <<502, 502, 1, -97>>, <<503, 503, 1, -56>>, <<504, 542, 2, 1>>, <<544, 544, 1, -130>>,
     <<546, 562, 2, 1>>, <<570, 570, 1, 10795>>, <<571, 571, 1, 1>>, <<573, 573, 1, -163>>,
     <<574, 574, 1, 10792>>, <<577, 577, 1, 1>>, <<579, 579, 1, -195>>, <<580, 580, 1, 69>>,
     <<581, 581, 1, 71>>, <<582, 590, 2, 1>>, <<880, 882, 2, 1>>, <<886, 886, 1, 1>>,
     <<895, 895, 1, 116>>, <<902, 902, 1, 38>>, <<904, 906, 1, 37>>, <<908, 908, 1, 64>>,
     <<910, 911, 1, 63>>, <<913, 929, 1, 32>>, <<931, 939, 1, 32>>, <<975, 975, 1, 8>>,
     <<984, 1006, 2, 1>>, <<1012, 1012, 1, -60>>, <<1015, 1015, 1, 1>>, <<1017, 1017, 1, -7>>,
     <<1018, 1018, 1, 1>>, <<1021, 1023, 1, -130>>, <<1024, 1039, 1, 80>>, <<1040, 1071, 1, 32>>,
     <<1120, 1152, 2, 1>>, <<1162, 1214, 2, 1>>, <<1216, 1216, 1, 15>>, <<1217, 1229, 2, 1>>,
     <<1232, 1326, 2, 1>>, <<1329, 1366, 1, 48>>, <<4256, 4293, 1, 7264>>, <<4295, 4295, 1, 7264>>,
     <<4301, 4301, 1, 7264>>, <<5024, 5103, 1, 38864>>, <<5104, 5109, 1, 8>>, <<7305, 7305, 1, 1>>,
     <<7312, 7354, 1, -3008>>, <<7357, 7359, 1, -3008>>, <<7680, 7828, 2, 1>>, <<7838, 7838, 1, -7615>>,
     <<7840, 7934, 2, 1>>, <<7944, 7951, 1, -8>>, <<7960, 7965, 1, -8>>, <<7976, 7983, 1, -8>>,
     <<7992, 7999, 1, -8>>, <<8008, 8013, 1, -8>>, <<8025, 8031, 2, -8>>, <<8040, 8047, 1, -8>>,
     <<8072, 8079, 1, -8>>, <<8088, 8095, 1, -8>>, <<8104, 8111, 1, -8>>, <<8120, 8121, 1, -8>>,
     <<8122, 8123, 1, -74>>, <<8124, 8124, 1, -9>>, <<8136, 8139, 1, -86>>, <<8140, 8140, 1, -9>>,
     <<8152, 8153, 1, -8>>, <<8154, 8155, 1, -100>>, <<8168, 8169, 1, -8>>, <<8170, 8171, 1, -112>>,
     <<8172, 8172, 1, -7>>, <<8184, 8185, 1, -128>>, <<8186, 8187, 1, -126>>, <<8188, 8188, 1, -9>>,
     <<8486, 8486, 1, -7517>>, <<8490, 8490, 1, -8383>>, <<8491, 8491, 1, -8262>>, <<8498, 8498, 1, 28>>,
     <<8544, 8559, 1, 16>>, <<8579, 8579, 1, 1>>, <<9398, 9423, 1, 26>>, <<11264, 11311, 1, 48>>,
     <<11360, 11360, 1, 1>>, <<11362, 11362, 1, -10743>>, <<11363, 11363, 1, -3814>>, <<11364, 11364, 1, -10727>>,
     <<11367, 11371, 2, 1>>, <<11373, 11373, 1, -10780>>, <<11374, 11374, 1, -10749>>, <<11375, 11375, 1, -10783>>,
     <<11376, 11376, 1, -10782>>, <<11378, 11378, 1, 1>>, <<11381, 11381, 1, 1>>, <<11390, 11391, 1, -10815>>,
     <<11392, 11490, 2, 1>>, <<11499, 11501, 2, 1>>, <<11506, 11506, 1, 1>>, <<42560, 42604, 2, 1>>,
     <<42624, 42650, 2, 1>>, <<42786, 42798, 2, 1>>, <<42802, 42862, 2, 1>>, <<42873, 42875, 2, 1>>,
     <<42877, 42877, 1, -35332>>, <<42878, 42886, 2, 1>>, <<42891, 42891, 1, 1>>, <<42893, 42893, 1, -42280>>,
     <<42896, 42898, 2, 1>>, <<42902, 42920, 2, 1>>, <<42922, 42922, 1, -42308>>, <<42923, 42923, 1, -42319>>,
     <<42924, 42924, 1, -42315>>, <<42925, 42925, 1, -42305>>, <<42926, 42926, 1, -42308>>, <<42928, 42928, 1, -42258>>,
     <<42929, 42929, 1, -42282>>, <<42930, 42930, 1, -42261>>, <<42931, 42931, 1, 928>>, <<42932, 42946, 2, 1>>,
     <<42948, 42948, 1, -48>>, <<42949, 42949, 1, -42307>>, <<42950, 42950, 1, -35384>>, <<42951, 42953, 2, 1>>,
     <<42955, 42955, 1, -42343>>, <<42956, 42970, 2, 1>>, <<42972, 42972, 1, -42561>>, <<42997, 42997, 1, 1>>,
     <<65313, 65338, 1, 32>>, <<66560, 66599, 1, 40>>, <<66736, 66771, 1, 40>>, <<66928, 66964, 2, 39>>,
     <<66929, 66929, 1, 39>>, <<66931, 66931, 1, 39>>, <<66933, 66933, 1, 39>>, <<66935, 66935, 1, 39>>,
     <<66937, 66937, 1, 39>>, <<66941, 66941, 1, 39>>, <<66943, 66943, 1, 39>>, <<66945, 66945, 1, 39>>,
     <<66947, 66947, 1, 39>>, <<66949, 66949, 1, 39>>, <<66951, 66951, 1, 39>>, <<66953, 66953, 1, 39>>,
     <<66957, 66957, 1, 39>>, <<66959, 66959, 1, 39>>, <<66961, 66961, 1, 39>>, <<66965, 66965, 1, 39>>,
     <<68736, 68786, 1, 64>>, <<68944, 68965, 1, 32>>, <<71840, 71871, 1, 32>>, <<93760, 93791, 1, 32>>,
     <<93856, 93880, 1, 27>>, <<125184, 125217, 1, 34>>}

CasedRanges ==
    {<<65, 90>>, <<97, 122>>, <<170, 170>>, <<181, 181>>, <<186, 186>>, <<192, 214>>,
     <<216, 246>>, <<248, 442>>, <<444, 447>>, <<452, 659>>, <<662, 696>>, <<704, 705>>,
     <<736, 740>>, <<837, 837>>, <<880, 883>>, <<886, 887>>, <<890, 893>>, <<895, 895>>,
     <<902, 902>>, <<904, 906>>, <<908, 908>>, <<910, 929>>, <<931, 1013>>, <<1015, 1153>>,
     <<1162, 1327>>, <<1329, 1366>>, <<1376, 1416>>, <<4256, 4293>>, <<4295, 4295>>, <<4301, 4301>>,
     <<4304, 4346>>, <<4348, 4351>>, <<5024, 5109>>, <<5112, 5117>>, <<7296, 7306>>, <<7312, 7354>>,
     <<7357, 7359>>, <<7424, 7615>>, <<7680, 7957>>, <<7960, 7965>>, <<7968, 8005>>, <<8008, 8013>>,
     <<8016, 8023>>, <<8025, 8025>>, <<8027, 8027>>, <<8029, 8029>>, <<8031, 8061>>, <<8064, 8116>>,
     <<8118, 8124>>, <<8126, 8126>>, <<8130, 8132>>, <<8134, 8140>>, <<8144, 8147>>, <<8150, 8155>>,
     <<8160, 8172>>, <<8178, 8180>>, <<8182, 8188>>, <<8305, 8305>>, <<8319, 8319>>, <<8336, 8348>>,
     <<8450, 8450>>, <<8455, 8455>>, <<8458, 8467>>, <<8469, 8469>>, <<8473, 8477>>, <<8484, 8484>>,
     <<8486, 8486>>, <<8488, 8488>>, <<8490, 8493>>, <<8495, 8500>>, <<8505, 8505>>, <<8508, 8511>>,
     <<8517, 8521>>, <<8526, 8526>>, <<8544, 8575>>, <<8579, 8580>>, <<9398, 9449>>, <<11264, 11492>>,
     <<11499, 11502>>, <<11506, 11507>>, <<11520, 11557>>, <<11559, 11559>>, <<11565, 11565>>, <<42560, 42605>>,
     <<42624, 42653>>, <<42786, 42887>>, <<42891, 42894>>, <<42896, 42972>>, <<42993, 42998>>, <<43000, 43002>>,
     <<43824, 43866>>, <<43868, 43881>>, <<43888, 43967>>, <<64256, 64262>>, <<64275, 64279>>, <<65313, 65338>>,
     <<65345, 65370>>, <<66560, 66639>>, <<66736, 66771>>, <<66776, 66811>>, <<66928, 66938>>, <<66940, 66954>>,
     <<66956, 66962>>, <<66964, 66965>>, <<66967, 66977>>, <<66979, 66993>>, <<66995, 67001>>, <<67003, 67004>>,
     <<67456, 67456>>, <<67459, 67461>>, <<67463, 67504>>, <<67506, 67514>>, <<68736, 68786>>, <<68800, 68850>>,
     <<68944, 68965>>, <<68976, 68997>>, <<71840, 71903>>, <<93760, 93823>>, <<93856, 93880>>, <<93883, 93907>>,
     <<119808, 119892>>, <<119894, 119964>>, <<119966, 119967>>, <<119970, 119970>>, <<119973, 119974>>, <<119977, 119980>>,
     <<119982, 119993>>, <<119995, 119995>>, <<119997, 120003>>, <<120005, 120069>>, <<120071, 120074>>, <<120077, 120084>>,
     <<120086, 120092>>, <<120094, 120121>>, <<120123, 120126>>, <<120128, 120132>>, <<120134, 120134>>, <<120138, 120144>>,
     <<120146, 120485>>, <<120488, 120512>>, <<120514, 120538>>, <<120540, 120570>>, <<120572, 120596>>, <<120598, 120628>>,
     <<120630, 120654>>, <<120656, 120686>>, <<120688, 120712>>, <<120714, 120744>>, <<120746, 120770>>, <<120772, 120779>>,
     <<122624, 122633>>, <<122635, 122654>>, <<122661, 122666>>, <<122928, 122989>>, <<125184, 125251>>, <<127280, 127305>>,
     <<127312, 127337>>, <<127344, 127369>>}

CaseIgnorableRanges ==
    {<<39, 39>>, <<46, 46>>, <<58, 58>>, <<94, 94>>, <<96, 96>>, <<168, 168>>,
     <<173, 173>>, <<175, 175>>, <<180, 180>>, <<183, 184>>, <<688, 879>>, <<884, 885>>,
     <<890, 890>>, <<900, 901>>, <<903, 903>>, <<1155, 1161>>, <<1369, 1369>>, <<1375, 1375>>,
     <<1425, 1469>>, <<1471, 1471>>, <<1473, 1474>>, <<1476, 1477>>, <<1479, 1479>>, <<1524, 1524>>,
     <<1536, 1541>>, <<1552, 1562>>, <<1564, 1564>>, <<1600, 1600>>, <<1611, 1631>>, <<1648, 1648>>,
     <<1750, 1757>>, <<1759, 1768>>, <<1770, 1773>>, <<1807, 1807>>, <<1809, 1809>>, <<1840, 1866>>,
     <<1958, 1968>>, <<2027, 2037>>, <<2042, 2042>>, <<2045, 2045>>, <<2070, 2093>>, <<2137, 2139>>,
     <<2184, 2184>>, <<2192, 2193>>, <<2199, 2207>>, <<2249, 2306>>, <<2362, 2362>>, <<2364, 2364>>,
     <<2369, 2376>>, <<2381, 2381>>, <<2385, 2391>>, <<2402, 2403>>, <<2417, 2417>>, <<2433, 2433>>,
     <<2492, 2492>>, <<2497, 2500>>, <<2509, 2509>>, <<2530, 2531>>, <<2558, 2558>>, <<2561, 2562>>,
     <<2620, 2620>>, <<2625, 2626>>, <<2631, 2632>>, <<2635, 2637>>, <<2641, 2641>>, <<2672, 2673>>,
     <<2677, 2677>>, <<2689, 2690>>, <<2748, 2748>>, <<2753, 2757>>, <<2759, 2760>>, <<2765, 2765>>,
     <<2786, 2787>>, <<2810, 2815>>, <<2817, 2817>>, <<2876, 2876>>, <<2879, 2879>>, <<2881, 2884>>,
     <<2893, 2893>>, <<2901, 2902>>, <<2914, 2915>>, <<2946, 2946>>, <<3008, 3008>>, <<3021, 3021>>,
     <<3072, 3072>>, <<3076, 3076>>, <<3132, 3132>>, <<3134, 3136>>, <<3142, 3144>>, <<3146, 3149>>,
     <<3157, 3158>>, <<3170, 3171>>, <<3201, 3201>>, <<3260, 3260>>, <<3263, 3263>>, <<3270, 3270>>,
     <<3276, 3277>>, <<3298, 3299>>, <<3328, 3329>>, <<3387, 3388>>, <<3393, 3396>>, <<3405, 3405>>,
     <<3426, 3427>>, <<3457, 3457>>, <<3530, 3530>>, <<3538, 3540>>, <<3542, 3542>>, <<3633, 3633>>,
     <<3636, 3642>>, <<3654, 3662>>, <<3761, 3761>>, <<3764, 3772>>, <<3782, 3782>>, <<3784, 3790>>,
     <<3864, 3865>>, <<3893, 3893>>, <<3895, 3895>>, <<3897, 3897>>, <<3953, 3966>>, <<3968, 3972>>,
     <<3974, 3975>>, <<3981, 3991>>, <<3993, 4028>>, <<4038, 4038>>, <<4141, 4144>>, <<4146, 4151>>,
     <<4153, 4154>>, <<4157, 4158>>, <<4184, 4185>>, <<4190, 4192>>, <<4209, 4212>>, <<4226, 4226>>,
     <<4229, 4230>>, <<4237, 4237>>, <<4253, 4253>>, <<4348, 4348>>, <<4957, 4959>>, <<5906, 5908>>,
     <<5938, 5939>>, <<5970, 5971>>, <<6002, 6003>>, <<6068, 6069>>, <<6071, 6077>>, <<6086, 6086>>,
     <<6089, 6099>>, <<6103, 6103>>, <<6109, 6109>>, <<6155, 6159>>, <<6211, 6211>>, <<6277, 6278>>,
     <<6313, 6313>>, <<6432, 6434>>, <<6439, 6440>>, <<6450, 6450>>, <<6457, 6459>>, <<6679, 6680>>,
     <<6683, 6683>>, <<6742, 6742>>, <<6744, 6750>>, <<6752, 6752>>, <<6754, 6754>>, <<6757, 6764>>,
     <<6771, 6780>>, <<6783, 6783>>, <<6823, 6823>>, <<6832, 6877>>, <<6880, 6891>>, <<6912, 6915>>,
     <<6964, 6964>>, <<6966, 6970>>, <<6972, 6972>>, <<6978, 6978>>, <<7019, 7027>>, <<7040, 7041>>,
     <<7074, 7077>>, <<7080, 7081>>, <<7083, 7085>>, <<7142, 7142>>, <<7144, 7145>>, <<7149, 7149>>,
     <<7151, 7153>>, <<7212, 7219>>, <<7222, 7223>>, <<7288, 7293>>, <<7376, 7378>>, <<7380, 7392>>,
     <<7394, 7400>>, <<7405, 7405>>, <<7412, 7412>>, <<7416, 7417>>, <<7468, 7530>>, <<7544, 7544>>,
     <<7579, 7679>>, <<8125, 8125>>, <<8127, 8129>>, <<8141, 8143>>, <<8157, 8159>>, <<8173, 8175>>,
     <<8189, 8190>>, <<8203, 8207>>, <<8216, 8217>>, <<8228, 8228>>, <<8231, 8231>>, <<8234, 8238>>,
     <<8288, 8292>>, <<8294, 8303>>, <<8305, 8305>>, <<8319, 8319>>, <<8336, 8348>>, <<8400, 8432>>,
     <<11388, 11389>>, <<11503, 11505>>, <<11631, 11631>>, <<11647, 11647>>, <<11744, 11775>>, <<11823, 11823>>,
     <<12293, 12293>>, <<12330, 12333>>, <<12337, 12341>>, <<12347, 12347>>, <<12441, 12446>>, <<12540, 12542>>,
     <<40981, 40981>>, <<42232, 42237>>, <<42508, 42508>>, <<42607, 42610>>, <<42612, 42621>>, <<42623, 42623>>,
     <<42652, 42655>>, <<42736, 42737>>, <<42752, 42785>>, <<42864, 42864>>, <<42888, 42890>>, <<42993, 42996>>,
     <<43000, 43001>>, <<43010, 43010>>, <<43014, 43014>>, <<43019, 43019>>, <<43045, 43046>>, <<43052, 43052>>,
     <<43204, 43205>>, <<43232, 43249>>, <<43263, 43263>>, <<43302, 43309>>, <<43335, 43345>>, <<43392, 43394>>,
     <<43443, 43443>>, <<43446, 43449>>, <<43452, 43453>>, <<43471, 43471>>, <<43493, 43494>>, <<43561, 43566>>,
     <<43569, 43570>>, <<43573, 43574>>, <<43587, 43587>>, <<43596, 43596>>, <<43632, 43632>>, <<43644, 43644>>,
     <<43696, 43696>>, <<43698, 43700>>, <<43703, 43704>>, <<43710, 43711>>, <<43713, 43713>>, <<43741, 43741>>,
     <<43756, 43757>>, <<43763, 43764>>, <<43766, 43766>>, <<43867, 43871>>, <<43881, 43883>>, <<44005, 44005>>,
     <<44008, 44008>>, <<44013, 44013>>, <<64286, 64286>>, <<64434, 64450>>, <<65024, 65039>>, <<65043, 65043>>,
     <<65056, 65071>>, <<65106, 65106>>, <<65109, 65109>>, <<65279, 65279>>, <<65287, 65287>>, <<65294, 65294>>,
     <<65306, 65306>>, <<65342, 65342>>, <<65344, 65344>>, <<65392, 65392>>, <<65438, 65439>>, <<65507, 65507>>,
     <<65529, 65531>>, <<66045, 66045>>, <<66272, 66272>>, <<66422, 66426>>, <<67456, 67461>>, <<67463, 67504>>,
     <<67506, 67514>>, <<68097, 68099>>, <<68101, 68102>>, <<68108, 68111>>, <<68152, 68154>>, <<68159, 68159>>,
     <<68325, 68326>>, <<68900, 68903>>, <<68942, 68942>>, <<68969, 68973>>, <<68975, 68975>>, <<69291, 69292>>,
     <<69317, 69317>>, <<69370, 69375>>, <<69446, 69456>>, <<69506, 69509>>, <<69633, 69633>>, <<69688, 69702>>,
     <<69744, 69744>>, <<69747, 69748>>, <<69759, 69761>>, <<69811, 69814>>, <<69817, 69818>>, <<69821, 69821>>,
     <<69826, 69826>>, <<69837, 69837>>, <<69888, 69890>>, <<69927, 69931>>, <<69933, 69940>>, <<70003, 70003>>,
     <<70016, 70017>>, <<70070, 70078>>, <<70089, 70092>>, <<70095, 70095>>, <<70191, 70193>>, <<70196, 70196>>,
     <<70198, 70199>>, <<70206, 70206>>, <<70209, 70209>>, <<70367, 70367>>, <<70371, 70378>>, <<70400, 70401>>,
     <<70459, 70460>>, <<70464, 70464>>, <<70502, 70508>>, <<70512, 70516>>, <<70587, 70592>>, <<70606, 70606>>,
     <<70608, 70608>>, <<70610, 70610>>, <<70625, 70626>>, <<70712, 70719>>, <<70722, 70724>>, <<70726, 70726>>,
     <<70750, 70750>>, <<70835, 70840>>, <<70842, 70842>>, <<70847, 70848>>, <<70850, 70851>>, <<71090, 71093>>,
     <<71100, 71101>>, <<71103, 71104>>, <<71132, 71133>>, <<71219, 71226>>, <<71229, 71229>>, <<71231, 71232>>,
     <<71339, 71339>>, <<71341, 71341>>, <<71344, 71349>>, <<71351, 71351>>, <<71453, 71453>>, <<71455, 71455>>,
     <<71458, 71461>>, <<71463, 71467>>, <<71727, 71735>>, <<71737, 71738>>, <<71995, 71996>>, <<71998, 71998>>,
     <<72003, 72003>>, <<72148, 72151>>, <<72154, 72155>>, <<72160, 72160>>, <<72193, 72202>>, <<72243, 72248>>,
     <<72251, 72254>>, <<72263, 72263>>, <<72273, 72278>>, <<72281, 72283>>, <<72330, 72342>>, <<72344, 72345>>,
     <<72544, 72544>>, <<72546, 72548>>, <<72550, 72550>>, <<72752, 72758>>, <<72760, 72765>>, <<72767, 72767>>,
     <<72850, 72871>>, <<72874, 72880>>, <<72882, 72883>>, <<72885, 72886>>, <<73009, 73014>>, <<73018, 73018>>,
     <<73020, 73021>>, <<73023, 73029>>, <<73031, 73031>>, <<73104, 73105>>, <<73109, 73109>>, <<73111, 73111>>,
     <<73177, 73177>>, <<73459, 73460>>, <<73472, 73473>>, <<73526, 73530>>, <<73536, 73536>>, <<73538, 73538>>,
     <<73562, 73562>>, <<78896, 78912>>, <<78919, 78933>>, <<90398, 90409>>, <<90413, 90415>>, <<92912, 92916>>,
     <<92976, 92982>>, <<92992, 92995>>, <<93504, 93506>>, <<93547, 93548>>, <<94031, 94031>>, <<94095, 94111>>,
     <<94176, 94177>>, <<94179, 94180>>, <<94194, 94195>>, <<110576, 110579>>, <<110581, 110587>>, <<110589, 110590>>,
     <<113821, 113822>>, <<113824, 113827>>, <<118528, 118573>>, <<118576, 118598>>, <<119143, 119145>>, <<119155, 119170>>,
     <<119173, 119179>>, <<119210, 119213>>, <<119362, 119364>>, <<121344, 121398>>, <<121403, 121452>>, <<121461, 121461>>,
     <<121476, 121476>>, <<121499, 121503>>, <<121505, 121519>>, <<122880, 122886>>, <<122888, 122904>>, <<122907, 122913>>,
     <<122915, 122916>>, <<122918, 122922>>, <<122928, 122989>>, <<123023, 123023>>, <<123184, 123197>>, <<123566, 123566>>,
     <<123628, 123631>>, <<124139, 124143>>, <<124398, 124399>>, <<124643, 124643>>, <<124646, 124646>>, <<124654, 124655>>,
     <<124661, 124661>>, <<124671, 124671>>, <<125136, 125142>>, <<125252, 125259>>, <<127995, 127999>>, <<917505, 917505>>,
     <<917536, 917631>>, <<917760, 917999>>}

\* U+0130 LATIN CAPITAL LETTER I WITH DOT ABOVE, the one character whose
\* lowercase is two characters: i, U+0307.
Ch_IDotAbove == 304

LowerIDotAbove == <<105, 775>>

\* U+03A3 GREEK CAPITAL LETTER SIGMA, its lowercase and the final form.
Ch_Sigma == 931

Ch_SmallSigma == 963

Ch_FinalSigma == 962

\* core::unicode::Case_Ignorable and core::unicode::Cased: table lookups,
\* false for every character the table does not list.
Case_Ignorable(c) == \E r \in CaseIgnorableRanges : r[1] <= c /\ c <= r[2]

Cased(c) == \E r \in CasedRanges : r[1] <= c /\ c <= r[2]

\* core::unicode::conversions::to_lower for a character that is not ASCII:
\* the mapping of the table, or the character itself when it has none.
conversions_to_lower(c) ==
    IF c = Ch_IDotAbove THEN LowerIDotAbove
    ELSE IF \E r \in LowercaseRuns :
                r[1] <= c /\ c <= r[2] /\ (c - r[1]) % r[3] = 0
         THEN LET r == CHOOSE r \in LowercaseRuns :
                           r[1] <= c /\ c <= r[2] /\ (c - r[1]) % r[3] = 0
              IN  <<c + r[4]>>
         ELSE <<c>>

\* char::to_lowercase: the lowercase of one character, as a string.
char_to_lowercase(c) ==
    IF 0 <= c /\ c < 128
    THEN IF Ch_UpperA <= c /\ c <= Ch_UpperZ THEN <<c + 32>> ELSE <<c>>
    ELSE conversions_to_lower(c)

\* case_ignorable_then_cased: the first character of s that is not
\* Case_Ignorable exists and is Cased.
case_ignorable_then_cased(s) ==
    \E i \in 1..Len(s) :
        /\ \A j \in 1..(i - 1) : Case_Ignorable(s[j])
        /\ ~Case_Ignorable(s[i])
        /\ Cased(s[i])

Reverse(s) == [i \in 1..Len(s) |-> s[Len(s) + 1 - i]]

\* map_uppercase_sigma: the sigma at position i of s is in Final_Sigma
\* context when a cased letter precedes it and none follows it.
map_uppercase_sigma(s, i) ==
    IF /\ case_ignorable_then_cased(Reverse(SubSeq(s, 1, i - 1)))
       /\ ~case_ignorable_then_cased(SubSeq(s, i + 1, Len(s)))
    THEN Ch_FinalSigma
    ELSE Ch_SmallSigma

\* The loop of str::to_lowercase over the characters lo..hi of s, each
\* written in the context of the whole string; the range is halved so that
\* long strings are within reach.
RECURSIVE to_lowercase_between(_, _, _)
to_lowercase_between(s, lo, hi) ==
    IF lo > hi THEN <<>>
    ELSE IF lo = hi
    THEN IF s[lo] = Ch_Sigma THEN <<map_uppercase_sigma(s, lo)>>
         ELSE char_to_lowercase(s[lo])
    ELSE to_lowercase_between(s, lo, (lo + hi) \div 2)
         \o to_lowercase_between(s, (lo + hi) \div 2 + 1, hi)

\* str::to_lowercase
to_lowercase(s) == to_lowercase_between(s, 1, Len(s))

\* str::starts_with
starts_with(s, p) == Len(p) <= Len(s) /\ SubSeq(s, 1, Len(p)) = p

\* &s[n..]
slice_from(s, n) == SubSeq(s, n + 1, Len(s))

\* str::replace: the non-overlapping matches of a non-empty pattern, found
\* left to right, are each replaced.
RECURSIVE replace(_, _, _)
replace(s, from, to) ==
    IF Len(s) = 0 THEN <<>>
    ELSE IF starts_with(s, from)
         THEN to \o replace(slice_from(s, Len(from)), from, to)
         ELSE <<Head(s)>> \o replace(Tail(s), from, to)

(***************************************************************************)
(* Option<String>                                                          *)
(***************************************************************************)
None == [some |-> FALSE, val |-> <<>>]

Some(s) == [some |-> TRUE, val |-> s]

(***************************************************************************)
(* Environment: the struct, Default and the builder methods                *)
(***************************************************************************)
default ==
    [prefix |-> None, separator |-> None,
     ignore_empty |-> FALSE, try_parsing |-> FALSE]

new == default

with_prefix(s) == [default EXCEPT !.prefix = Some(s)]

prefix(self, s) == [self EXCEPT !.prefix = Some(s)]

separator_clobber(self, s) == [default EXCEPT !.separator = Some(s)]

separator(self, s) == [self EXCEPT !.separator = Some(s)]

ignore_empty(self, ignore) == [self EXCEPT !.ignore_empty = ignore]

try_parsing(self, b) == [self EXCEPT !.try_parsing = b]

(***************************************************************************)
(* Natural numbers of any size: the sequence of their decimal digits       *)
(* (integers 0..9), most significant first, without leading zeros; zero    *)
(* is the empty sequence.                                                  *)
(***************************************************************************)
IsDigit(c) == Ch_Zero <= c /\ c <= Ch_Nine

AllDigits(s) == \A i \in 1..Len(s) : IsDigit(s[i])

\* Leading zeros dropped.
BigNorm(a) ==
    IF \A i \in 1..Len(a) : a[i] = 0 THEN <<>>
    ELSE SubSeq(a, CHOOSE i \in 1..Len(a) :
                       a[i] # 0 /\ \A j \in 1..(i - 1) : a[j] = 0, Len(a))

\* The number a string of ASCII digits denotes.
BigOfDigits(s) == BigNorm([i \in 1..Len(s) |-> s[i] - Ch_Zero])

\* The number of zeros that end the digits of a number.
BigTrailingZeros(a) ==
    IF Len(a) = 0 THEN 0
    ELSE Len(a) - (CHOOSE i \in 1..Len(a) :
                       a[i] # 0 /\ \A j \in (i + 1)..Len(a) : a[j] = 0)

\* The decimal rendering of a number (zero is "0").
BigToStr(a) ==
    IF Len(a) = 0 THEN <<Ch_Zero>> ELSE [i \in 1..Len(a) |-> a[i] + Ch_Zero]

BigLeq(a, b) ==
    IF Len(a) # Len(b) THEN Len(a) < Len(b)
    ELSE IF a = b THEN TRUE
    ELSE LET i == CHOOSE i \in 1..Len(a) :
                      a[i] # b[i] /\ \A j \in 1..(i - 1) : a[j] = b[j]
         IN  a[i] < b[i]

RECURSIVE BigOfNat(_)
BigOfNat(n) == IF n = 0 THEN <<>> ELSE Append(BigOfNat(n \div 10), n % 10)

RECURSIVE NatOfBig(_)
NatOfBig(d) ==
    IF Len(d) = 0 THEN 0 ELSE 10 * NatOfBig(SubSeq(d, 1, Len(d) - 1)) + d[Len(d)]

\* The digits of a * k + carry, least significant digit first in a and in
\* the result d (as long as a); c is the carry out of the last digit.  The
\* two halves of a are multiplied one after the other.  k < 2^27.
RECURSIVE BigMulCarry(_, _, _)
BigMulCarry(a, k, carry) ==
    IF Len(a) = 0 THEN [d |-> <<>>, c |-> carry]
    ELSE IF Len(a) = 1
    THEN LET t == a[1] * k + carry IN [d |-> <<t % 10>>, c |-> t \div 10]
    ELSE LET h  == Len(a) \div 2
             lo == BigMulCarry(SubSeq(a, 1, h), k, carry)
             hi == BigMulCarry(SubSeq(a, h + 1, Len(a)), k, lo.c)
         IN  [d |-> lo.d \o hi.d, c |-> hi.c]

\* a * k + carry for k, carry < 2^27.
BigMulAdd(a, k, carry) ==
    LET r == BigMulCarry(Reverse(a), k, carry)
    IN  BigNorm(BigOfNat(r.c) \o Reverse(r.d))

BigMulSmall(a, k) == BigMulAdd(a, k, 0)

\* The digits of (rem * 10^Len(a) + a) \div k, most significant first and as
\* many as a has, and the remainder r, for rem < k < 2^27.
RECURSIVE BigDivCarry(_, _, _)
BigDivCarry(a, k, rem) ==
    IF Len(a) = 0 THEN [q |-> <<>>, r |-> rem]
    ELSE IF Len(a) = 1
    THEN LET t == rem * 10 + a[1] IN [q |-> <<t \div k>>, r |-> t % k]
    ELSE LET h  == Len(a) \div 2
             hi == BigDivCarry(SubSeq(a, 1, h), k, rem)
             lo == BigDivCarry(SubSeq(a, h + 1, Len(a)), k, hi.r)
         IN  [q |-> hi.q \o lo.q, r |-> lo.r]

\* [q, r] with a = q * k + r and r < k, for 0 < k < 2^27.
BigDivSmall(a, k) ==
    LET dm == BigDivCarry(a, k, 0) IN [q |-> BigNorm(dm.q), r |-> dm.r]

\* a * 2^k
RECURSIVE BigMulPow2(_, _)
BigMulPow2(a, k) ==
    IF Len(a) = 0 THEN a
    ELSE IF k <= 26 THEN BigMulSmall(a, 2^k)
    ELSE BigMulPow2(BigMulPow2(a, k \div 2), k - k \div 2)

\* a * 5^k
RECURSIVE BigMulPow5(_, _)
BigMulPow5(a, k) ==
    IF Len(a) = 0 THEN a
    ELSE IF k <= 11 THEN BigMulSmall(a, 5^k)
    ELSE BigMulPow5(BigMulPow5(a, k \div 2), k - k \div 2)

\* A number n followed by a fraction in [0, 1) of which only `sticky`,
\* whether it is nonzero, is kept: x = [n, sticky].  x / 2^k, rounded down.
RECURSIVE BigShr(_, _)
BigShr(x, k) ==
    IF Len(x.n) = 0 THEN x
    ELSE IF k <= 26
    THEN LET dm == BigDivSmall(x.n, 2^k)
         IN  [n |-> dm.q, sticky |-> x.sticky \/ dm.r # 0]
    ELSE BigShr(BigShr(x, k \div 2), k - k \div 2)

\* x / 5^k, rounded down.
RECURSIVE BigDivPow5(_, _)
BigDivPow5(x, k) ==
    IF Len(x.n) = 0 THEN x
    ELSE IF k <= 11
    THEN LET dm == BigDivSmall(x.n, 5^k)
         IN  [n |-> dm.q, sticky |-> x.sticky \/ dm.r # 0]
    ELSE BigDivPow5(BigDivPow5(x, k \div 2), k - k \div 2)

\* The number of binary digits of a > 0.  10^(Len(a) - 1) <= a gives the
\* lower estimate lb (33219 / 10000 < log2(10)), which is at most five
\* short; the binary digits of a \div 2^(lb - 8) are counted one by one.
BigBitLen(a) ==
    LET lb   == ((Len(a) - 1) * 33219) \div 10000
        down == IF lb > 8 THEN lb - 8 ELSE 0
        top  == BigShr([n |-> a, sticky |-> FALSE], down).n
    IN  down + Cardinality({i \in 0..20 : BigLeq(BigMulPow2(<<1>>, i), top)})

(***************************************************************************)
(* The three parsers tried by collect().  Each returns [ok, text, exp]:    *)
(* ok tells whether the parse succeeded, text/exp are the parsed payload:   *)
(*   bool  text is "true" or "false", exp = 0;                              *)
(*   i64   text is the decimal rendering of the integer (no `+`, no         *)
(*         leading zeros), exp = 0;                                         *)
(*   f64   the fields of the binary64 value: text is the 52-bit fraction    *)
(*         field in decimal, preceded by `-` when the sign bit is set, and  *)
(*         exp is the 11-bit biased exponent field (0 for zero and          *)
(*         subnormals, 2047 for infinity and NaN).                          *)
(***************************************************************************)
ParseErr == [ok |-> FALSE, text |-> <<>>, exp |-> 0]

ParseOk(text, exp) == [ok |-> TRUE, text |-> text, exp |-> exp]

\* <bool as FromStr>::from_str
parse_bool(s) ==
    IF s = Str_true \/ s = Str_false
    THEN ParseOk(s, 0)
    ELSE ParseErr

\* The magnitudes of i64::MAX and i64::MIN.
I64MaxDigits ==
    BigOfDigits(Str(<<"9","2","2","3","3","7","2","0","3","6","8","5","4","7","7","5","8","0","7">>))

I64MinDigits == BigMulAdd(I64MaxDigits, 1, 1)

\* <i64 as FromStr>::from_str
parse_i64(s) ==
    IF Len(s) = 0 THEN ParseErr
    ELSE IF Head(s) \in {Ch_Plus, Ch_Minus} /\ Len(s) = 1 THEN ParseErr
    ELSE LET neg    == Head(s) = Ch_Minus
             digits == IF Head(s) \in {Ch_Plus, Ch_Minus} THEN Tail(s) ELSE s
             mag    == IF AllDigits(digits) THEN BigOfDigits(digits) ELSE <<>>
         IN  IF ~AllDigits(digits) THEN ParseErr
             ELSE IF ~BigLeq(mag, IF neg THEN I64MinDigits ELSE I64MaxDigits)
                  THEN ParseErr
             ELSE IF Len(mag) = 0 THEN ParseOk(BigToStr(mag), 0)
             ELSE ParseOk((IF neg THEN <<Ch_Minus>> ELSE <<>>) \o BigToStr(mag), 0)

\* Index of the first character of s that is in cs, 0 if there is none.
FirstIndex(s, cs) ==
    IF \E i \in 1..Len(s) : s[i] \in cs
    THEN CHOOSE i \in 1..Len(s) :
             s[i] \in cs /\ \A j \in 1..(i - 1) : s[j] \notin cs
    ELSE 0

\* u8::to_ascii_lowercase on each character.
to_ascii_lowercase(s) ==
    [i \in 1..Len(s) |->
        IF Ch_UpperA <= s[i] /\ s[i] <= Ch_UpperZ THEN s[i] + 32 ELSE s[i]]

\* The decimal exponent read from a string of digits (dec2flt): each digit
\* is accumulated while the running value is below 65536 and the digits
\* after that are ignored.  d holds the digit values without the leading
\* zeros, which leave the running value at 0.
RECURSIVE ExpAccumulate(_, _, _)
ExpAccumulate(d, i, acc) ==
    IF i > Len(d) \/ acc >= 65536 THEN acc
    ELSE ExpAccumulate(d, i + 1, 10 * acc + d[i])

ExpOfDigits(s) == ExpAccumulate(BigOfDigits(s), 1, 0)

\* The binary64 halves of a significand h * 2^26 + l (h <= 2^27, l < 2^26)
\* whose last place is 2^(be - 1075): [frac, bexp].  Below 2^52 the value
\* is subnormal; 2^53 is the next power of two; an exponent field of 2047
\* or more is infinity.
F64Pack(h, l, be) ==
    IF h < 2^26 THEN [frac |-> BigMulAdd(BigOfNat(h), 2^26, l), bexp |-> 0]
    ELSE IF h = 2^27
    THEN [frac |-> <<>>, bexp |-> IF be + 1 >= 2047 THEN 2047 ELSE be + 1]
    ELSE IF be >= 2047 THEN [frac |-> <<>>, bexp |-> 2047]
    ELSE [frac |-> BigMulAdd(BigOfNat(h - 2^26), 2^26, l), bexp |-> be]

\* Round to nearest, ties to even: hi * 2^27 + lo is the significand
\* followed by one guard bit, sticky tells whether anything nonzero was
\* cut off behind the guard bit.
F64RoundUp(hi, lo, sticky, be) ==
    F64Pack(hi + (lo + (IF sticky \/ lo % 4 = 3 THEN 1 ELSE 0)) \div 2^27,
            ((lo + (IF sticky \/ lo % 4 = 3 THEN 1 ELSE 0)) \div 2) % 2^26,
            be)

\* y is the value cut before the guard bit.
F64Guard(y, hl, be) == F64RoundUp(NatOfBig(hl.q), hl.r, y.sticky, be)

\* The number t of low bits of x.n (b bits long, last place 2^e) that the
\* significand leaves out: all but 53, or more when the last place would
\* fall below 2^-1074.
F64Drop(b, e) == IF b - 53 >= (0 - 1074) - e THEN b - 53 ELSE (0 - 1074) - e

F64Cut(y, be) == F64Guard(y, BigDivSmall(y.n, 2^27), be)

F64CutAt(x, e, t) == F64Cut(BigShr(x, t - 1), e + t + 1075)

\* The binary exponent s that makes dec * 10^e10 / 2^(e10 - s) at least 2^64.
F64Shift(e10) == IF e10 >= 0 THEN 64 ELSE ((0 - e10) * 2322) \div 1000 + 65

F64Scaled(dec, e10, s) ==
    IF e10 >= 0
    THEN [n |-> BigMulPow2(BigMulPow5(dec, e10), s), sticky |-> FALSE]
    ELSE BigDivPow5([n |-> BigMulPow2(dec, s), sticky |-> FALSE], 0 - e10)

F64OfScaled(x, e) == F64CutAt(x, e, F64Drop(BigBitLen(x.n), e))

\* The binary64 nearest to dec * 10^e10 (dec > 0), ties to even, as its
\* fields [frac, bexp].  The value is brought to the form (x.n + f) * 2^e
\* with x.n >= 2^64 and 0 <= f < 1 (x.sticky tells whether f > 0), cut to
\* the 53 bits of a significand (fewer below the normal range, where the
\* last place is 2^-1074) plus one guard bit, and rounded.
F64Round(dec, e10) ==
    F64OfScaled(F64Scaled(dec, e10, F64Shift(e10)), e10 - F64Shift(e10))

\* The quiet NaN: fraction 2^51.
F64NaNFraction == BigMulPow2(<<1>>, 51)

\* <f64 as FromStr>::from_str
parse_f64(s) ==
    IF Len(s) = 0 THEN ParseErr
    ELSE
    LET neg   == Head(s) = Ch_Minus
        sign  == IF neg THEN <<Ch_Minus>> ELSE <<>>
        body  == IF Head(s) \in {Ch_Plus, Ch_Minus} THEN Tail(s) ELSE s
        lower == to_ascii_lowercase(body)
        epos  == FirstIndex(body, {Ch_LowerE, Ch_UpperE})
        mant  == IF epos = 0 THEN body ELSE SubSeq(body, 1, epos - 1)
        etxt  == IF epos = 0 THEN <<>> ELSE slice_from(body, epos)
        eneg  == Len(etxt) > 0 /\ Head(etxt) = Ch_Minus
        edig  == IF Len(etxt) > 0 /\ Head(etxt) \in {Ch_Plus, Ch_Minus}
                 THEN Tail(etxt) ELSE etxt
        dpos  == FirstIndex(mant, {Ch_Dot})
        ipart == IF dpos = 0 THEN mant ELSE SubSeq(mant, 1, dpos - 1)
        fpart == IF dpos = 0 THEN <<>> ELSE slice_from(mant, dpos)
        valid == /\ AllDigits(ipart) /\ AllDigits(fpart)
                 /\ Len(ipart) + Len(fpart) > 0
                 /\ epos # 0 => (Len(edig) > 0 /\ AllDigits(edig))
        e10   == (IF epos = 0 THEN 0
                  ELSE IF eneg THEN 0 - ExpOfDigits(edig) ELSE ExpOfDigits(edig))
                 - Len(fpart)
        dec   == BigOfDigits(ipart \o fpart)
        \* the value is dec * 10^e10, between 10^(sci-1) and 10^sci
        sci   == Len(dec) + e10
        \* trailing zeros of the digits go to the exponent
        tz    == BigTrailingZeros(dec)
        f     == F64Round(SubSeq(dec, 1, Len(dec) - tz), e10 + tz)
    IN  IF lower = Str_inf \/ lower = Str_infinity
        THEN ParseOk(sign \o <<Ch_Zero>>, 2047)
        ELSE IF lower = Str_nan
        THEN ParseOk(sign \o BigToStr(F64NaNFraction), 2047)
        ELSE IF ~valid THEN ParseErr
        ELSE IF Len(dec) = 0 THEN ParseOk(sign \o <<Ch_Zero>>, 0)
        ELSE IF sci > 310 THEN ParseOk(sign \o <<Ch_Zero>>, 2047)
        ELSE IF sci < 0 - 324 THEN ParseOk(sign \o <<Ch_Zero>>, 0)
        ELSE ParseOk(sign \o BigToStr(f.frac), f.bexp)

(***************************************************************************)
(* Value and Map                                                           *)
(***************************************************************************)
uri == "the environment"

\* Value::new(Some(&uri), kind)
Value(kind, text, exp) ==
    [origin |-> uri, kind |-> kind, text |-> text, exp |-> exp]

\* Map::new()
EmptyMap == <<>>

\* Map::insert: a later insert under an existing key replaces its value.
insert(m, k, v) ==
    [x \in (DOMAIN m) \cup {k} |-> IF x = k THEN v ELSE m[x]]

(***************************************************************************)
(* Environment::collect                                                    *)
(***************************************************************************)
\* let separator = self.separator.as_deref().unwrap_or("");
separator_str(self) ==
    IF self.separator.some THEN self.separator.val ELSE <<>>

\* let group_separator = self.separator.as_deref().unwrap_or("_");
group_separator(self) ==
    IF self.separator.some THEN self.separator.val ELSE Str_underscore

prefix_pattern_no_group_separator(self) ==
    IF self.prefix.some
    THEN [some |-> TRUE, val |-> to_lowercase(self.prefix.val)]
    ELSE [some |-> FALSE, val |-> <<>>]

\* format!("{}{}", prefix, group_separator).to_lowercase(), or None
prefix_pattern(self) ==
    IF self.prefix.some
    THEN Some(to_lowercase(self.prefix.val \o group_separator(self)))
    ELSE None

skip_empty_unconditional(self, value) == Len(value) = 0

\* The empty-value test at the head of the loop body: TRUE means `continue`.
skip_empty(self, value) == self.ignore_empty /\ Len(value) = 0

\* The prefix test and strip on the lowercased key: Some(rest) or None for
\* `continue`.
strip_prefix(self, key) ==
    LET pp == prefix_pattern(self)
    IN  IF pp.some
        THEN IF starts_with(key, pp.val)
             THEN Some(slice_from(key, Len(pp.val)))
             ELSE None
        ELSE Some(key)

replace_first(s, from, to) ==
    IF \E i \in 1..Len(s) : starts_with(slice_from(s, i - 1), from)
    THEN LET i == CHOOSE i \in 1..Len(s) :
                      /\ starts_with(slice_from(s, i - 1), from)
                      /\ \A j \in 1..(i - 1) :
                            ~starts_with(slice_from(s, j - 1), from)
         IN  SubSeq(s, 1, i - 1) \o to \o slice_from(s, i - 1 + Len(from))
    ELSE s

rewrite_separator_first_only(self, key) ==
    IF self.separator.some /\ Len(self.separator.val) # 0
    THEN replace_first(key, self.separator.val, Str_dot)
    ELSE key

\* If separator is given replace with `.`
rewrite_separator(self, key) ==
    IF Len(separator_str(self)) # 0
    THEN replace(key, separator_str(self), Str_dot)
    ELSE key

infer_value_float_first(self, value) ==
    IF self.try_parsing
    THEN LET b == parse_bool(to_lowercase(value))
             i == parse_i64(value)
             f == parse_f64(value)
         IN  IF b.ok THEN Value("Boolean", b.text, b.exp)
             ELSE IF f.ok THEN Value("Float", f.text, f.exp)
             ELSE IF i.ok THEN Value("Integer", i.text, i.exp)
             ELSE Value("String", value, 0)
    ELSE Value("String", value, 0)

\* The value stored for an entry.
infer_value(self, value) ==
    IF self.try_parsing
    THEN LET b == parse_bool(to_lowercase(value))
             i == parse_i64(value)
             f == parse_f64(value)
         IN  IF b.ok THEN Value("Boolean", b.text, b.exp)
             ELSE IF i.ok THEN Value("Integer", i.text, i.exp)
             ELSE IF f.ok THEN Value("Float", f.text, f.exp)
             ELSE Value("String", value, 0)
    ELSE Value("String", value, 0)

collect_entry_rewrite_first(self, m, entry) ==
    IF skip_empty(self, entry.value) THEN m
    ELSE LET key == strip_prefix(self,
                        rewrite_separator(self, to_lowercase(entry.name)))
         IN  IF ~key.some THEN m
             ELSE insert(m, key.val, infer_value(self, entry.value))

\* One iteration of the loop over env::vars(): the map after the entry.
collect_entry(self, m, entry) ==
    IF skip_empty(self, entry.value) THEN m
    ELSE LET key == strip_prefix(self, to_lowercase(entry.name))
         IN  IF ~key.some THEN m
             ELSE insert(m, rewrite_separator(self, key.val),
                         infer_value(self, entry.value))

RECURSIVE collect_loop(_, _, _)
collect_loop(self, m, entries) ==
    IF Len(entries) = 0 THEN m
    ELSE collect_loop(self, collect_entry(self, m, Head(entries)),
                      Tail(entries))

\* env::vars() panics while iterating when a name or a value of the
\* environment is not valid Unicode.
vars_panics(entries) ==
    \E i \in 1..Len(entries) :
        ~IsUnicode(entries[i].name) \/ ~IsUnicode(entries[i].value)

collect(self, entries) ==
    IF vars_panics(entries)
    THEN [outcome |-> "panic", map |-> EmptyMap]
    ELSE [outcome |-> "Ok", map |-> collect_loop(self, EmptyMap, entries)]

(***************************************************************************)
(* Inputs                                                                  *)
(***************************************************************************)
Str_Config == Str(<<"C","o","n","f","i","g">>)

Str_app == Str(<<"a","p","p">>)

\* Arguments of prefix() and with_prefix().
PrefixArgs == {Str_Config, Str_app}

\* Arguments of separator(): empty, `_`, `__` and an upper-case letter.
SeparatorArgs == {<<>>, Str(<<"_">>), Str(<<"_","_">>), Str(<<"D">>)}

Config_Debug == Str(<<"C","o","n","f","i","g","_","D","e","b","u","g">>)

CONFIGDEBUG == Str(<<"C","O","N","F","I","G","D","E","B","U","G">>)

CONFIG_ == Str(<<"C","O","N","F","I","G","_">>)

OTHERVAR == Str(<<"O","T","H","E","R","V","A","R">>)

REDIS_PASSWORD == Str(<<"R","E","D","I","S","_","P","A","S","S","W","O","R","D">>)

redis_dot_password == Str(<<"r","e","d","i","s",".","p","a","s","s","w","o","r","d">>)

CONFIG__REDIS__PASSWORD ==
    Str(<<"C","O","N","F","I","G","_","_","R","E","D","I","S","_","_",
      "P","A","S","S","W","O","R","D">>)

CONFIG_REDIS == Str(<<"C","O","N","F","I","G","_","R","E","D","I","S">>)

\* The Greek and Latin-1 name U+039F U+0394 U+039F U+03A3 `_` U+00C9 and
\* its lowercase U+03BF U+03B4 U+03BF U+03C2 `.` U+00E9 after the rewrite
\* of `_`: the capital sigma ends a word.
ODOS_E == <<927, 916, 927, 931, 95, 201>>

odos_dot_e == <<959, 948, 959, 962, 46, 233>>

Entry(n, v) == [name |-> n, value |-> v]

\* The environment entries of the key-normalization runs.
KeyEntries ==
    {Entry(Config_Debug, Str(<<"T","R","U","E">>)), Entry(Config_Debug, <<>>),
     Entry(CONFIGDEBUG, Str(<<"5">>)),
     Entry(CONFIG_, Str(<<"5">>)),
     Entry(REDIS_PASSWORD, Str(<<"5">>)),
     Entry(redis_dot_password, Str(<<"h","i">>)),
     Entry(CONFIG__REDIS__PASSWORD, Str(<<"5">>)),
     Entry(CONFIG_REDIS, Str(<<"5">>)),
     Entry(ODOS_E, <<>>)}

\* An entry whose value is not valid Unicode (OTHERVAR=\xFF on Unix).
NonUnicodeEntry == Entry(OTHERVAR, <<BadByte>>)

\* A decimal that is nearer to the binary64 of 0.1 than to any other.
TenthLong == Str(<<"0",".","1","0","0","0","0","0","0","0","0","0","0","0","0","0","0","0","0","0","5","5","5","1","1","1","5","1","2","3","1","2","5","7","8","2","7">>)

\* The raw values of the value-inference runs.
Values ==
    {<<>>,
     Str(<<"T","R","U","E">>), Str(<<"F","a","l","s","e">>),
     Str(<<"4","2">>), Str(<<"5">>), Str(<<"-","0","0","7">>),
     Str(<<"3",".","1","4">>), Str(<<"i","n","f">>),
     Str(<<" ","5">>), Str(<<"H","e","l","l","o">>),
     Str(<<"1","e","4","0","0">>), Str(<<"1","e","-","4","0","0">>),
     Str(<<"0",".","1">>), TenthLong,
     Str(<<"9","2","2","3","3","7","2","0","3","6","8","5","4","7","7","5","8","0","8">>)}

\* The i-th variable of a value-inference run is named V, VV, VVV, ..., or
\* V again.
ValueName(i) == [j \in 1..i |-> Code("V")]

\* Environments: the entries in the order env::vars() yields them.  The
\* environment block may hold a name more than once.
EnvsOfLen(entries, n) == [1..n -> entries]

\* Up to MaxEnv entries of the key-normalization runs, alone or followed
\* by the entry that is not valid Unicode.
KeyEnvs ==
    LET strings == UNION {EnvsOfLen(KeyEntries, n) : n \in 0..MaxEnv}
    IN  strings \cup {Append(e, NonUnicodeEntry) : e \in strings}

ValueEnvs ==
    UNION {{[i \in 1..n |-> Entry(ValueName(ns[i]), vs[i])] :
               vs \in [1..n -> Values],
               ns \in {f \in [1..n -> 1..n] : \A i \in 1..n : f[i] \in {1, i}}}
           : n \in 0..MaxEnv}

\* Configurations the builder produces for the key-normalization runs.
KeyConfigs ==
    LET P == {new, with_prefix(Str_Config)}
        S == P \cup {separator(c, s) : c \in P, s \in SeparatorArgs}
    IN  {try_parsing(ignore_empty(c, i), t) : c \in S, i \in BOOLEAN, t \in BOOLEAN}

\* Configurations of the value-inference runs: no prefix, no separator.
ValueConfigs ==
    {try_parsing(ignore_empty(new, i), t) : i \in BOOLEAN, t \in BOOLEAN}

(***************************************************************************)
(* State machine                                                           *)
(*   cfg     the adapter (the Environment struct)                          *)
(*   env     the process environment, in enumeration order                 *)
(*   result  what the latest collect() call produced                       *)
(*   calls   number of collect() calls made                                *)
(*   op      the latest operation and its argument                         *)
(***************************************************************************)
Op(name, s, b) == [name |-> name, s |-> s, b |-> b]

NoResult == [outcome |-> "none", map |-> EmptyMap]

InitBuild ==
    /\ cfg = new
    /\ env = <<>>
    /\ result = NoResult
    /\ calls = 0
    /\ op = Op("new", <<>>, FALSE)

Init ==
    /\ cfg \in KeyConfigs
    /\ env \in KeyEnvs
    /\ result = NoResult
    /\ calls = 0
    /\ op = Op("built", <<>>, FALSE)

InitValue ==
    /\ cfg \in ValueConfigs
    /\ env \in ValueEnvs
    /\ result = NoResult
    /\ calls = 0
    /\ op = Op("built", <<>>, FALSE)

New ==
    /\ cfg' = new
    /\ op' = Op("new", <<>>, FALSE)
    /\ UNCHANGED <<env, result, calls>>

WithPrefix ==
    \E s \in PrefixArgs :
        /\ cfg' = with_prefix(s)
        /\ op' = Op("with_prefix", s, FALSE)
        /\ UNCHANGED <<env, result, calls>>

SetPrefix ==
    \E s \in PrefixArgs :
        /\ cfg' = prefix(cfg, s)
        /\ op' = Op("prefix", s, FALSE)
        /\ UNCHANGED <<env, result, calls>>

SetSeparator ==
    \E s \in SeparatorArgs :
        /\ cfg' = separator(cfg, s)
        /\ op' = Op("separator", s, FALSE)
        /\ UNCHANGED <<env, result, calls>>

SetIgnoreEmpty ==
    \E b \in BOOLEAN :
        /\ cfg' = ignore_empty(cfg, b)
        /\ op' = Op("ignore_empty", <<>>, b)
        /\ UNCHANGED <<env, result, calls>>

SetTryParsing ==
    \E b \in BOOLEAN :
        /\ cfg' = try_parsing(cfg, b)
        /\ op' = Op("try_parsing", <<>>, b)
        /\ UNCHANGED <<env, result, calls>>

\* collect(&self): reads the adapter and the environment, returns the map.
Collect ==
    /\ calls < MaxCalls
    /\ result' = collect(cfg, env)
    /\ calls' = calls + 1
    /\ op' = Op("collect", <<>>, FALSE)
    /\ UNCHANGED <<cfg, env>>

NextBuild ==
    \/ New
    \/ WithPrefix
    \/ SetPrefix
    \/ SetSeparator
    \/ SetIgnoreEmpty
    \/ SetTryParsing

Next == Collect

\* The builder: construction of an adapter.
SpecBuild == InitBuild /\ [][NextBuild]_vars

\* collect() on a built adapter, environments exercising key normalization.
Spec == Init /\ [][Next]_vars

\* collect() on a built adapter, environments exercising value inference.
SpecValue == InitValue /\ [][Next]_vars

(***************************************************************************)
(* Vocabulary of the properties.  These definitions state what the         *)
(* documentation says about names and keys; they do not use the operators  *)
(* of collect().                                                           *)
(***************************************************************************)
Returned == calls > 0 /\ result.outcome = "Ok"

Keys == DOMAIN result.map

LowerName(e) == to_lowercase(e.name)

\* The entry passes the empty-value filter of configuration c.
PassesEmptyFilter(c, e) == c.ignore_empty => e.value # <<>>

Suffixes(s) == {SubSeq(s, i, Len(s)) : i \in 1..(Len(s) + 1)}

\* s is p followed by something.
BeginsWith(s, p) == \E r \in Suffixes(s) : p \o r = s

\* What follows p in s.
RestAfter(s, p) == CHOOSE r \in Suffixes(s) : p \o r = s

\* s with the occurrences of the non-empty string sep, taken left to right
\* from position i on, each replaced by a single `.`.
RECURSIVE DotRewriteFrom(_, _, _)
DotRewriteFrom(s, sep, i) ==
    IF i > Len(s) THEN <<>>
    ELSE IF i + Len(sep) - 1 <= Len(s) /\ SubSeq(s, i, i + Len(sep) - 1) = sep
         THEN Str_dot \o DotRewriteFrom(s, sep, i + Len(sep))
         ELSE <<s[i]>> \o DotRewriteFrom(s, sep, i + 1)

DotRewrite(s, sep) == DotRewriteFrom(s, sep, 1)

HasEntry(n, v) == \E i \in 1..Len(env) : env[i] = Entry(n, v)

HasName(n) == \E i \in 1..Len(env) : env[i].name = n

\* The keys of the entries that pass the empty-value filter and whose
\* lowercased name begins with pat, each with pat removed and then the
\* occurrences of sep (if non-empty) rewritten to `.`.
KeysUnderPattern(pat, sep) ==
    {IF sep = <<>> THEN RestAfter(LowerName(env[i]), pat)
                   ELSE DotRewrite(RestAfter(LowerName(env[i]), pat), sep) :
        i \in {j \in 1..Len(env) :
                  /\ PassesEmptyFilter(cfg, env[j])
                  /\ BeginsWith(LowerName(env[j]), pat)}}

(***************************************************************************)
(* C1: with a prefix P and no separator configured, the keys of the result *)
(* are exactly the lowercased names that begin with lowercase(P) followed   *)
(* by `_` (of entries passing the empty-value filter), each with that       *)
(* pattern removed from the front; a name equal to the pattern gives the    *)
(* empty key.                                                               *)
(***************************************************************************)
C1_PrefixDefaultSeparator ==
    (Returned /\ cfg.prefix.some /\ ~cfg.separator.some) =>
        Keys = KeysUnderPattern(to_lowercase(cfg.prefix.val) \o Str_underscore, <<>>)

C1_Witness ==
    /\ Returned /\ cfg.prefix.some /\ ~cfg.separator.some
    /\ HasEntry(Config_Debug, Str(<<"T","R","U","E">>))
    /\ HasEntry(CONFIG_, Str(<<"5">>))
    /\ Keys = {Str(<<"d","e","b","u","g">>), <<>>}

(***************************************************************************)
(* C2: with no prefix configured, the keys of the result are exactly the   *)
(* lowercased names of the entries passing the empty-value filter, with    *)
(* every occurrence of a configured non-empty separator replaced by `.`;   *)
(* with no separator, or an empty one, the key is the lowercased name.     *)
(***************************************************************************)
C2_NoPrefixKeys ==
    (Returned /\ ~cfg.prefix.some) =>
        Keys = KeysUnderPattern(<<>>, IF cfg.separator.some
                                      THEN cfg.separator.val ELSE <<>>)

C2_Witness ==
    /\ Returned /\ ~cfg.prefix.some
    /\ cfg.separator = Some(Str(<<"_">>))
    /\ HasEntry(REDIS_PASSWORD, Str(<<"5">>))
    /\ HasName(ODOS_E)
    /\ Keys = {Str(<<"r","e","d","i","s",".","p","a","s","s","w","o","r","d">>),
               odos_dot_e}

(***************************************************************************)
(* C8: with a prefix P and the empty string as separator, the group        *)
(* separator is `_`: the keys of the result are the lowercased names       *)
(* beginning with lowercase(P) followed by `_`, with that pattern removed  *)
(* and no rewrite (CONFIGDEBUG excluded, CONFIG_DEBUG gives `debug`).      *)
(***************************************************************************)
C8_EmptySeparatorGroupsWithUnderscore ==
    (Returned /\ cfg.prefix.some /\ cfg.separator = Some(<<>>)) =>
        Keys = KeysUnderPattern(to_lowercase(cfg.prefix.val) \o Str_underscore, <<>>)

(***************************************************************************)
(* C9 as stated: with a prefix P and a non-empty separator S, every key of *)
(* the result comes from an entry whose lowercased name begins with        *)
(* lowercase(P) followed by S, with that pattern removed and then every    *)
(* occurrence of S replaced by `.`.                                        *)
(***************************************************************************)
C9_PatternIsLowerPrefixThenSeparator ==
    (Returned /\ cfg.prefix.some /\ cfg.separator.some
        /\ cfg.separator.val # <<>>) =>
        Keys \subseteq
            KeysUnderPattern(to_lowercase(cfg.prefix.val) \o cfg.separator.val,
                             cfg.separator.val)

(***************************************************************************)
(* C9 amended: with a prefix P and a non-empty separator S, the keys of    *)
(* the result are exactly those of the entries (passing the empty-value    *)
(* filter) whose lowercased name begins with the lowercase of P followed   *)
(* by S; that pattern is removed first and then every occurrence of S, as  *)
(* configured, in the remainder is replaced by `.`.                        *)
(***************************************************************************)
C9_PatternIsLowercasedWhole ==
    (Returned /\ cfg.prefix.some /\ cfg.separator.some
        /\ cfg.separator.val # <<>>) =>
        Keys = KeysUnderPattern(
                   to_lowercase(cfg.prefix.val \o cfg.separator.val),
                   cfg.separator.val)

C9_Witness ==
    /\ Returned
    /\ cfg.prefix = Some(Str_Config)
    /\ cfg.separator = Some(Str(<<"_","_">>))
    /\ HasEntry(CONFIG__REDIS__PASSWORD, Str(<<"5">>))
    /\ HasEntry(CONFIG_REDIS, Str(<<"5">>))
    /\ Keys = {Str(<<"r","e","d","i","s",".","p","a","s","s","w","o","r","d">>)}

(***************************************************************************)
(* C3: the stored value depends on (tryParsing, raw value) alone.  With    *)
(* tryParsing off it is String(raw).  With tryParsing on it is the first   *)
(* of Boolean (on the lowercased text), Integer (64-bit signed), Float,    *)
(* String(raw) that applies; the table lists, for each raw value of the    *)
(* runs, the variant and payload that documentation of the three parsers   *)
(* gives (a Float as the exponent and fraction fields of its binary64).    *)
(***************************************************************************)
InferenceTable ==
    {<< <<>>,
        "String", <<>>, 0 >>,
     << Str(<<"T","R","U","E">>),
        "Boolean", Str(<<"t","r","u","e">>), 0 >>,
     << Str(<<"F","a","l","s","e">>),
        "Boolean", Str(<<"f","a","l","s","e">>), 0 >>,
     << Str(<<"4","2">>),
        "Integer", Str(<<"4","2">>), 0 >>,
     << Str(<<"5">>),
        "Integer", Str(<<"5">>), 0 >>,
     << Str(<<"-","0","0","7">>),
        "Integer", Str(<<"-","7">>), 0 >>,
     << Str(<<"3",".","1","4">>),
        "Float", Str(<<"2","5","6","7","0","5","1","7","8","7","6","0","1","1","8","3">>), 1024 >>,
     << Str(<<"i","n","f">>),
        "Float", Str(<<"0">>), 2047 >>,
     << Str(<<"0",".","1">>),
        "Float", Str(<<"2","7","0","2","1","5","9","7","7","6","4","2","2","2","9","8">>), 1019 >>,
     << TenthLong,
        "Float", Str(<<"2","7","0","2","1","5","9","7","7","6","4","2","2","2","9","8">>), 1019 >>,
     << Str(<<"1","e","4","0","0">>),
        "Float", Str(<<"0">>), 2047 >>,
     << Str(<<"1","e","-","4","0","0">>),
        "Float", Str(<<"0">>), 0 >>,
     << Str(<<"9","2","2","3","3","7","2","0","3","6","8","5","4","7","7","5","8","0","8">>),
        "Float", Str(<<"0">>), 1086 >>,
     << Str(<<" ","5">>),
        "String", Str(<<" ","5">>), 0 >>,
     << Str(<<"H","e","l","l","o">>),
        "String", Str(<<"H","e","l","l","o">>), 0 >>}

ExpectedValue(try, raw) ==
    IF try
    THEN LET row == CHOOSE r \in InferenceTable : r[1] = raw
         IN  [origin |-> "the environment", kind |-> row[2],
              text |-> row[3], exp |-> row[4]]
    ELSE [origin |-> "the environment", kind |-> "String",
          text |-> raw, exp |-> 0]

\* The last entry that has the name of entry i and passes the empty-value
\* filter: the one whose value the map holds.
LastNamed(i) ==
    CHOOSE j \in i..Len(env) :
        /\ env[j].name = env[i].name /\ PassesEmptyFilter(cfg, env[j])
        /\ \A k \in (j + 1)..Len(env) :
              ~(env[k].name = env[i].name /\ PassesEmptyFilter(cfg, env[k]))

C3_ValueInference ==
    Returned =>
        \A i \in 1..Len(env) :
            PassesEmptyFilter(cfg, env[i]) =>
                /\ LowerName(env[i]) \in Keys
                /\ result.map[LowerName(env[i])]
                       = ExpectedValue(cfg.try_parsing, env[LastNamed(i)].value)

C3_Witness ==
    /\ Returned /\ cfg.try_parsing
    /\ \E i \in 1..Len(env) :
          /\ env[i].value = Str(<<"T","R","U","E">>)
          /\ result.map[LowerName(env[i])].kind = "Boolean"
    /\ \E i \in 1..Len(env) :
          /\ env[i].value = Str(<<"4","2">>)
          /\ result.map[LowerName(env[i])].kind = "Integer"

(***************************************************************************)
(* C4: with ignoreEmpty on, empty-valued entries contribute nothing to the *)
(* result; an entry is included iff it passes both the empty-value filter  *)
(* and the prefix filter; testing the prefix before the empty value gives  *)
(* the same map.                                                           *)
(***************************************************************************)
NonEmptyValue(e) == e.value # <<>>

\* The entry passes the prefix filter of configuration c.
PassesPrefixFilter(c, e) ==
    c.prefix.some =>
        BeginsWith(LowerName(e),
                   to_lowercase(c.prefix.val \o
                       (IF c.separator.some THEN c.separator.val ELSE Str_underscore)))

\* The key and value collect() stores for an included entry.
KeyOf(c, e) == rewrite_separator(c, strip_prefix(c, LowerName(e)).val)

\* The loop of collect() with the two filters tested in the other order.
RECURSIVE CollectPrefixFirst(_, _, _)
CollectPrefixFirst(c, m, entries) ==
    IF Len(entries) = 0 THEN m
    ELSE LET e == Head(entries)
             next == IF ~PassesPrefixFilter(c, e) THEN m
                     ELSE IF ~PassesEmptyFilter(c, e) THEN m
                     ELSE insert(m, KeyOf(c, e), infer_value(c, e.value))
         IN  CollectPrefixFirst(c, next, Tail(entries))

C4_FiltersIndependent ==
    Returned =>
        /\ cfg.ignore_empty =>
              /\ result.map = collect(cfg, SelectSeq(env, NonEmptyValue)).map
              /\ \A k \in Keys : result.map[k].text # <<>>
        /\ Keys = {KeyOf(cfg, env[i]) :
                      i \in {j \in 1..Len(env) :
                                /\ PassesEmptyFilter(cfg, env[j])
                                /\ PassesPrefixFilter(cfg, env[j])}}
        /\ result.map = CollectPrefixFirst(cfg, EmptyMap, env)

C4_Witness ==
    /\ Returned /\ cfg.ignore_empty /\ cfg.prefix.some
    /\ HasEntry(Config_Debug, <<>>)
    /\ HasEntry(CONFIG_REDIS, Str(<<"5">>))
    /\ Cardinality(Keys) = 1

(***************************************************************************)
(* C5: every call of collect() returns a success result, whatever the      *)
(* configuration and whatever the environment holds.                      *)
(***************************************************************************)
C5_CollectAlwaysOk == calls > 0 => result.outcome = "Ok"

(***************************************************************************)
(* C7: a new adapter has the default configuration; each builder call      *)
(* sets its own field to its argument and leaves the other three as they   *)
(* were; calls for different fields commute; with_prefix(s) builds what    *)
(* new().prefix(s) builds.                                                 *)
(***************************************************************************)
C7_BuilderStep ==
    /\ op'.name = "new" =>
          cfg' = [prefix |-> None, separator |-> None,
                  ignore_empty |-> FALSE, try_parsing |-> FALSE]
    /\ op'.name = "with_prefix" => cfg' = prefix(new, op'.s)
    /\ op'.name = "prefix" =>
          /\ cfg'.prefix = Some(op'.s)
          /\ cfg'.separator = cfg.separator
          /\ cfg'.ignore_empty = cfg.ignore_empty
          /\ cfg'.try_parsing = cfg.try_parsing
    /\ op'.name = "separator" =>
          /\ cfg'.separator = Some(op'.s)
          /\ cfg'.prefix = cfg.prefix
          /\ cfg'.ignore_empty = cfg.ignore_empty
          /\ cfg'.try_parsing = cfg.try_parsing
    /\ op'.name = "ignore_empty" =>
          /\ cfg'.ignore_empty = op'.b
          /\ cfg'.prefix = cfg.prefix
          /\ cfg'.separator = cfg.separator
          /\ cfg'.try_parsing = cfg.try_parsing
    /\ op'.name = "try_parsing" =>
          /\ cfg'.try_parsing = op'.b
          /\ cfg'.prefix = cfg.prefix
          /\ cfg'.separator = cfg.separator
          /\ cfg'.ignore_empty = cfg.ignore_empty

C7_BuilderCommutes ==
    \A p \in PrefixArgs, s \in SeparatorArgs, i \in BOOLEAN, t \in BOOLEAN :
        /\ separator(prefix(cfg, p), s) = prefix(separator(cfg, s), p)
        /\ ignore_empty(separator(cfg, s), i) = separator(ignore_empty(cfg, i), s)
        /\ try_parsing(separator(cfg, s), t) = separator(try_parsing(cfg, t), s)
        /\ ignore_empty(prefix(cfg, p), i) = prefix(ignore_empty(cfg, i), p)
        /\ try_parsing(prefix(cfg, p), t) = prefix(try_parsing(cfg, t), p)
        /\ try_parsing(ignore_empty(cfg, i), t) = ignore_empty(try_parsing(cfg, t), i)

C7_BuilderFrame ==
    /\ cfg = [prefix |-> None, separator |-> None,
              ignore_empty |-> FALSE, try_parsing |-> FALSE]
    /\ [][C7_BuilderStep]_vars
    /\ []C7_BuilderCommutes

C7_Witness ==
    /\ op.name = "separator" /\ op.s = Str(<<"_","_">>)
    /\ cfg.prefix = Some(Str_app)
    /\ cfg.separator = Some(Str(<<"_","_">>))
    /\ cfg.ignore_empty /\ cfg.try_parsing

(***************************************************************************)
(* C10: when two or more included entries (names that differ in letter     *)
(* case, or in separator versus `.`) normalize to one key, collect() does  *)
(* not fail and the map holds for that key the value of the entry          *)
(* enumerated last; the map never has more keys than there are included    *)
(* entries.                                                                *)
(***************************************************************************)
Included ==
    {i \in 1..Len(env) : /\ PassesEmptyFilter(cfg, env[i])
                         /\ PassesPrefixFilter(cfg, env[i])}

\* The keys that two or more included entries, of different names,
\* normalize to.
CollidingKeys ==
    {KeyOf(cfg, env[i]) :
        i \in {j \in Included :
                  \E l \in Included :
                      /\ env[l].name # env[j].name
                      /\ KeyOf(cfg, env[l]) = KeyOf(cfg, env[j])}}

LastWith(k) ==
    CHOOSE i \in Included :
        /\ KeyOf(cfg, env[i]) = k
        /\ \A j \in Included : KeyOf(cfg, env[j]) = k => j <= i

C10_LastEntryWins ==
    calls > 0 =>
        /\ CollidingKeys # {} =>
              /\ result.outcome = "Ok"
              /\ \A k \in CollidingKeys :
                    /\ k \in Keys
                    /\ result.map[k] = infer_value(cfg, env[LastWith(k)].value)
        /\ Cardinality(Keys) <= Cardinality(Included)

====
